---- MODULE Spec2Model ----
(***************************************************************************)
(* Model of the RealNVP training driver (train_rgb.py) and of its data     *)
(* utilities (data_utils.py): the epoch loop of main with its early stop,  *)
(* checkpoint and sample-grid logic, the logit transform in both           *)
(* directions, and the dataset split sizes produced by load.               *)
(*                                                                         *)
(* Real numbers are exact rationals <<numerator, denominator>> with a      *)
(* positive denominator; the floats inf, -inf and nan are the pairs        *)
(* <<1, 0>>, <<-1, 0>> and <<0, 0>>.  The value logit(p) = log(p) -        *)
(* log(1 - p) is carried by its odds p / (1 - p), so that exp(-logit) is   *)
(* the reciprocal of the odds.                                             *)
(***************************************************************************)
EXTENDS Integers, Sequences, FiniteSets

VARIABLES
    \* ---- main (train_rgb.py) ----
    pc,              \* position in main: "idle", "loop", "train", "val", "check",
                     \* "finished" (line 193 reached), "crashed" (uncaught exception)
    max_epoch,       \* args.max_epoch
    nTrain,          \* number of mini-batches the train loader yields
    nVal,            \* number of mini-batches the validation loader yields
    epoch,
    fetched,         \* mini-batches the running for loop has taken from its loader
    batch_idx,       \* 0 while the name is not bound yet
    running_loss,
    running_log_ll,
    mean_loss,
    mean_log_ll,
    optimal_log_ll,
    early_stop,
    params,          \* flow.state_dict(), as the number of optimizer steps taken
    checkpoint,      \* trained_weights.pt: << >> (no file) or <<params saved>>
    grids,           \* epochs e for which epoch<e>.png has been written
    \* ---- history of the run (not program state) ----
    penLevels,       \* the largest value scale_reg * weight_scale takes in this run
    llFloor,         \* the finite batch log-likelihoods of this run are -llFloor .. 0
    nonFinite,       \* the non-finite batch log-likelihoods of this run
    phase,           \* of the phase in progress: the sums of its batches' losses
                     \* and log-likelihoods, and the number of its batches
    ended,           \* the same of the phase that ended last
    valSeen,         \* the validation means reported in the epochs validated so far
    improved,        \* the last validated epoch's mean was strictly greater than
                     \* the best earlier one (-inf when there is none)
    lastImproved,    \* the last epoch whose validation mean was so (0: none)
    bestParams,      \* the parameters that epoch had
    \* ---- load (data_utils.py) ----
    dataset,         \* the dataset name given to load
    setLen,          \* len(train_set) of the underlying torchvision dataset
    csvRows,         \* the partition column of the CelebA csv, one entry per row
    nFiles,          \* number of files in the CelebA image folder
    loadState,       \* "idle", "ready", "loaded", "error"
    train_len,       \* len(train_split)
    val_len,         \* len(val_split)
    \* ---- logit_transform (data_utils.py) ----
    lt,              \* "idle", "input", "forward", "reverse"
    x_in,            \* the pixel value given to the forward transform
    noise,           \* the dequantization noise drawn for it
    pre_logit,       \* the value the logit is applied to
    logit_x,         \* the forward result, as odds
    x_out            \* the result of the reverse transform on logit_x

mainVars  == <<pc, max_epoch, nTrain, nVal, epoch, fetched, batch_idx, running_loss,
               running_log_ll, mean_loss, mean_log_ll, optimal_log_ll, early_stop,
               params, checkpoint, grids>>
histVars  == <<penLevels, llFloor, nonFinite, phase, ended, valSeen, improved, lastImproved, bestParams>>
loadVars  == <<dataset, setLen, csvRows, nFiles, loadState, train_len, val_len>>
logitVars == <<lt, x_in, noise, pre_logit, logit_x, x_out>>
vars      == <<mainVars, histVars, loadVars, logitVars>>

----------------------------------------------------------------------------
(* Bounds of the model *)

NegEpochs   == 1    \* max_epoch ranges down to -NegEpochs
SmallEpochs == 2    \* ... and up to SmallEpochs in the runs with several batches
ExtraEpochs == 2    \* the long run has max_epoch = EarlyStopLimit + ExtraEpochs
MaxBatches  == 2    \* mini-batches per loader in the short runs
MaxLL       == 1    \* short runs: a batch's log-likelihood is in -MaxLL .. 0, -inf or nan
LongLL      == 1    \* the long run: it is in -LongLL .. 0
MaxPen      == 1    \* a batch's scale_reg * weight_scale ranges over 0 .. MaxPen

PixDen      == 15   \* pixel values are i / PixDen, i in 0 .. PixDen
NoiseDen    == 8    \* noise values are j / NoiseDen, j in 0 .. NoiseDen - 1
MaxRows     == 4    \* rows of the CelebA csv
Slack       == 1    \* len(train_set) ranges within Slack of the split lengths' sum

(* Program constants *)

EarlyStopLimit == 100

----------------------------------------------------------------------------
(* Rational arithmetic *)

RECURSIVE GCD(_, _)
GCD(a, b) == IF b = 0 THEN a ELSE GCD(b, a % b)

Abs(n) == IF n < 0 THEN 0 - n ELSE n

Norm(n, d) ==
    LET s == IF d < 0 THEN 0 - 1 ELSE 1
        g == GCD(Abs(n), Abs(d))
    IN  <<(s * n) \div g, (s * d) \div g>>

Lcm(a, b) == (a \div GCD(a, b)) * b

\* sums and products cancel common factors before they multiply
RAdd(a, b) ==
    LET d == Lcm(a[2], b[2])
    IN  Norm(a[1] * (d \div a[2]) + b[1] * (d \div b[2]), d)
RNeg(a)    == <<0 - a[1], a[2]>>
RSub(a, b) == RAdd(a, RNeg(b))
RMul(a, b) ==
    LET g1 == GCD(Abs(a[1]), Abs(b[2]))
        g2 == GCD(Abs(b[1]), Abs(a[2]))
    IN  Norm((a[1] \div g1) * (b[1] \div g2), (a[2] \div g2) * (b[2] \div g1))
RInv(a)    == Norm(a[2], a[1])
RDiv(a, b) == RMul(a, RInv(b))
RLe(a, b)  == RSub(b, a)[1] >= 0
RInt(n)    == <<n, 1>>

NegInf == <<0 - 1, 0>>
PosInf == <<1, 0>>
NaN    == <<0, 0>>

\* Python's + on floats
FAdd(a, b) ==
    IF a = NaN \/ b = NaN THEN NaN
    ELSE IF a[2] = 0 THEN (IF b[2] = 0 /\ b # a THEN NaN ELSE a)
    ELSE IF b[2] = 0 THEN b
    ELSE RAdd(a, b)

\* Python's unary - on floats
FNeg(a) == <<0 - a[1], a[2]>>

\* Python's a / k for a float a and an int k >= 1
FDivInt(a, k) == IF a[2] = 0 THEN a ELSE Norm(a[1], a[2] * k)

\* Python's a > b on floats: False when either side is nan
Gt(a, b) ==
    IF a = NaN \/ b = NaN THEN FALSE
    ELSE IF a[2] = 0 THEN a = PosInf /\ b # PosInf
    ELSE IF b[2] = 0 THEN b = NegInf
    ELSE a[1] * b[2] > b[1] * a[2]

----------------------------------------------------------------------------
(* main: the training loop *)

\* What one mini-batch yields: log_ll = (log_ll_ + log_det).mean(), which a
\* diverged flow makes nan and a zero density -inf, and the penalty
\* scale_reg * weight_scale; loss = -log_ll + penalty.
BatchValues ==
    [ll : {RInt(v) : v \in (0 - llFloor) .. 0} \cup nonFinite,
     pen : {RInt(p) : p \in 0 .. penLevels}]

\* the items of the dataset's splits are image tensors, so that a batch is a
\* tensor: CelebA.__getitem__ returns the image; CIFAR10 and ImageFolder
\* return (image, target), which the loader collates to a list of two
BatchIsTensor(name) == name = "celeba"

BatchLoss(b) == FAdd(FNeg(b.ll), b.pen)

NoBatches == [loss |-> RInt(0), ll |-> RInt(0), n |-> 0]

\* the sums of the phase in progress after batch b
PhaseAfter(b) ==
    [loss |-> FAdd(phase.loss, BatchLoss(b)), ll |-> FAdd(phase.ll, b.ll),
     n |-> phase.n + 1]

\* the greatest of the means in S that are not nan, -inf when there is none
BestOf(S) ==
    LET real == {v \in S : v # NaN}
    IN  IF real = {} THEN NegInf
        ELSE CHOOSE v \in real : \A w \in real : ~Gt(w, v)

\* the cadence with the epoch-35 grid forgotten
SaveGridCadence_No35(e) ==
    e <= 15 \/ e = 25 \/ e = 45 \/ e % 10 = 0

SaveGridCadence(e) ==
    e <= 15 \/ e = 25 \/ e = 35 \/ e = 45 \/ e % 10 = 0

\* a save that leaves the file as it was
SaveCheckpoint_Skip(file, p) == file

\* torch.save(flow.state_dict(), path): the file now holds the parameters
SaveCheckpoint(file, p) == <<p>>

StartEpoch ==
    /\ pc = "loop"
    /\ epoch < max_epoch
    /\ epoch' = epoch + 1
    /\ fetched' = 0
    /\ phase' = NoBatches
    /\ pc' = "train"
    /\ UNCHANGED <<max_epoch, nTrain, nVal, batch_idx, running_loss, running_log_ll,
                   mean_loss, mean_log_ll, optimal_log_ll, early_stop, params,
                   checkpoint, grids>>
    /\ UNCHANGED <<penLevels, llFloor, nonFinite, ended, valSeen, improved,
                   lastImproved, bestParams>>
    /\ UNCHANGED <<loadVars, logitVars>>

ExitLoop ==
    /\ pc = "loop"
    /\ ~(epoch < max_epoch)
    /\ pc' = "finished"
    /\ UNCHANGED <<max_epoch, nTrain, nVal, epoch, fetched, batch_idx, running_loss,
                   running_log_ll, mean_loss, mean_log_ll, optimal_log_ll, early_stop,
                   params, checkpoint, grids>>
    /\ UNCHANGED <<histVars, loadVars, logitVars>>

\* one iteration of the training for loop, optimizer step included.  Line 99
\* hands the batch to logit_transform as it is: a batch of (image, target)
\* items is a list, x.size() (data_utils.py line 138) raises AttributeError
\* and nothing catches it.
TrainBatch ==
    /\ pc = "train"
    /\ fetched < nTrain
    /\ fetched' = fetched + 1
    /\ batch_idx' = fetched + 1
    /\ IF BatchIsTensor(dataset)
       THEN /\ \E b \in BatchValues :
                  /\ running_loss' = FAdd(running_loss, BatchLoss(b))
                  /\ running_log_ll' = FAdd(running_log_ll, b.ll)
                  /\ phase' = PhaseAfter(b)
            /\ params' = params + 1
            /\ pc' = pc
       ELSE /\ pc' = "crashed"
            /\ UNCHANGED <<running_loss, running_log_ll, phase, params>>
    /\ UNCHANGED <<max_epoch, nTrain, nVal, epoch, mean_loss, mean_log_ll,
                   optimal_log_ll, early_stop, checkpoint, grids>>
    /\ UNCHANGED <<penLevels, llFloor, nonFinite, ended, valSeen, improved,
                   lastImproved, bestParams>>
    /\ UNCHANGED <<loadVars, logitVars>>

\* the training loader is exhausted: the training means, the reset of the
\* accumulators, and the switch to evaluation.  Were batch_idx not bound, line
\* 125 would raise UnboundLocalError, which nothing catches; the train loader
\* main builds always yields a batch (see Init), so it is bound here.
TrainEnd ==
    /\ pc = "train"
    /\ fetched = nTrain
    /\ IF batch_idx = 0
       THEN /\ pc' = "crashed"
            /\ UNCHANGED <<mean_loss, mean_log_ll, running_loss, running_log_ll,
                           fetched, phase, ended>>
       ELSE /\ mean_loss' = FDivInt(running_loss, batch_idx)
            /\ mean_log_ll' = FDivInt(running_log_ll, batch_idx)
            /\ running_loss' = RInt(0)
            /\ running_log_ll' = RInt(0)
            /\ fetched' = 0
            /\ ended' = phase
            /\ phase' = NoBatches
            /\ pc' = "val"
    /\ UNCHANGED <<max_epoch, nTrain, nVal, epoch, batch_idx, optimal_log_ll,
                   early_stop, params, checkpoint, grids>>
    /\ UNCHANGED <<penLevels, llFloor, nonFinite, valSeen, improved, lastImproved,
                   bestParams>>
    /\ UNCHANGED <<loadVars, logitVars>>

\* one iteration of the validation for loop; line 141 hands the batch to
\* logit_transform as line 99 does
ValBatch ==
    /\ pc = "val"
    /\ fetched < nVal
    /\ fetched' = fetched + 1
    /\ batch_idx' = fetched + 1
    /\ IF BatchIsTensor(dataset)
       THEN /\ \E b \in BatchValues :
                  /\ running_loss' = FAdd(running_loss, BatchLoss(b))
                  /\ running_log_ll' = FAdd(running_log_ll, b.ll)
                  /\ phase' = PhaseAfter(b)
            /\ pc' = pc
       ELSE /\ pc' = "crashed"
            /\ UNCHANGED <<running_loss, running_log_ll, phase>>
    /\ UNCHANGED <<max_epoch, nTrain, nVal, epoch, mean_loss, mean_log_ll,
                   optimal_log_ll, early_stop, params, checkpoint, grids>>
    /\ UNCHANGED <<penLevels, llFloor, nonFinite, ended, valSeen, improved,
                   lastImproved, bestParams>>
    /\ UNCHANGED <<loadVars, logitVars>>

\* the validation loader is exhausted: the validation means, the reset of the
\* accumulators, the sample grid and the unconditional save of the weights.
\* batch_idx is the one the last for loop bound: the training loop's when the
\* validation loader gave no batch.
ValEnd ==
    /\ pc = "val"
    /\ fetched = nVal
    /\ mean_loss' = FDivInt(running_loss, batch_idx)
    /\ mean_log_ll' = FDivInt(running_log_ll, batch_idx)
    /\ running_loss' = RInt(0)
    /\ running_log_ll' = RInt(0)
    /\ grids' = IF SaveGridCadence(epoch) THEN grids \cup {epoch} ELSE grids
    /\ checkpoint' = SaveCheckpoint(checkpoint, params)
    /\ pc' = "check"
    /\ ended' = phase
    /\ LET better == Gt(mean_log_ll', BestOf(valSeen))
       IN  /\ valSeen' = valSeen \cup {mean_log_ll'}
           /\ improved' = better
           /\ lastImproved' = IF better THEN epoch ELSE lastImproved
           /\ bestParams' = IF better THEN params ELSE bestParams
    /\ UNCHANGED <<max_epoch, nTrain, nVal, epoch, fetched, batch_idx,
                   optimal_log_ll, early_stop, params>>
    /\ UNCHANGED <<penLevels, llFloor, nonFinite, phase, loadVars, logitVars>>

\* the early-stop check without the break
EarlyStopCheck_NoBreak ==
    /\ pc = "check"
    /\ IF Gt(mean_log_ll, optimal_log_ll)
       THEN /\ early_stop' = 0
            /\ optimal_log_ll' = mean_log_ll
            /\ checkpoint' = SaveCheckpoint(checkpoint, params)
       ELSE /\ early_stop' = early_stop + 1
            /\ UNCHANGED <<optimal_log_ll, checkpoint>>
    /\ pc' = "loop"
    /\ UNCHANGED <<max_epoch, nTrain, nVal, epoch, fetched, batch_idx, running_loss,
                   running_log_ll, mean_loss, mean_log_ll, params, grids>>
    /\ UNCHANGED <<histVars, loadVars, logitVars>>

\* the early-stop check with "not optimal > mean" in place of "mean > optimal":
\* a tie and a nan count as an improvement
EarlyStopCheck_Ge ==
    /\ pc = "check"
    /\ IF ~Gt(optimal_log_ll, mean_log_ll)
       THEN /\ early_stop' = 0
            /\ optimal_log_ll' = mean_log_ll
            /\ checkpoint' = SaveCheckpoint(checkpoint, params)
            /\ pc' = "loop"
       ELSE /\ early_stop' = early_stop + 1
            /\ pc' = IF early_stop + 1 >= EarlyStopLimit THEN "finished" ELSE "loop"
            /\ UNCHANGED <<optimal_log_ll, checkpoint>>
    /\ UNCHANGED <<max_epoch, nTrain, nVal, epoch, fetched, batch_idx, running_loss,
                   running_log_ll, mean_loss, mean_log_ll, params, grids>>
    /\ UNCHANGED <<histVars, loadVars, logitVars>>

EarlyStopCheck ==
    /\ pc = "check"
    /\ IF Gt(mean_log_ll, optimal_log_ll)
       THEN /\ early_stop' = 0
            /\ optimal_log_ll' = mean_log_ll
            /\ checkpoint' = SaveCheckpoint(checkpoint, params)
            /\ pc' = "loop"
       ELSE /\ early_stop' = early_stop + 1
            /\ pc' = IF early_stop + 1 >= EarlyStopLimit THEN "finished" ELSE "loop"
            /\ UNCHANGED <<optimal_log_ll, checkpoint>>
    /\ UNCHANGED <<max_epoch, nTrain, nVal, epoch, fetched, batch_idx, running_loss,
                   running_log_ll, mean_loss, mean_log_ll, params, grids>>
    /\ UNCHANGED <<histVars, loadVars, logitVars>>

LoadNotRun ==
    /\ setLen = 0 /\ csvRows = << >> /\ nFiles = 0
    /\ loadState = "idle" /\ train_len = 0 /\ val_len = 0

LoadIdle == dataset = "none" /\ LoadNotRun

LogitIdle ==
    /\ lt = "idle" /\ x_in = RInt(0) /\ noise = RInt(0)
    /\ pre_logit = RInt(0) /\ logit_x = RInt(0) /\ x_out = RInt(0)

MainLocals ==
    /\ epoch = 0
    /\ fetched = 0
    /\ batch_idx = 0
    /\ running_loss = RInt(0)
    /\ running_log_ll = RInt(0)
    /\ mean_loss = RInt(0)
    /\ mean_log_ll = RInt(0)
    /\ optimal_log_ll = NegInf
    /\ early_stop = 0
    /\ params = 0
    /\ checkpoint = << >>
    /\ grids = {}
    /\ phase = NoBatches
    /\ ended = NoBatches
    /\ valSeen = {}
    /\ improved = FALSE
    /\ lastImproved = 0
    /\ bestParams = 0

MainStart == pc = "loop" /\ MainLocals

\* The state when line 93 is first reached.  The train loader is built with
\* shuffle=True (line 72): its RandomSampler rejects an empty split with a
\* ValueError before the loop exists, and drop_last is off, so the loader
\* yields at least one batch.  The validation loader is sequential (line 74)
\* and yields no batch when its split is empty.
\* args.dataset is one of the names load knows (it raises on any other); the
\* splits load returns are carried by nTrain and nVal alone.
\* Short runs with up to MaxBatches batches per loader, a penalty that varies
\* and log-likelihoods that may be -inf or nan, and one long run, of one batch
\* per loader, no penalty and finite log-likelihoods, that can reach the
\* early-stop threshold.
Init ==
    /\ MainStart
    /\ \/ /\ max_epoch \in (0 - NegEpochs) .. SmallEpochs
          /\ nTrain \in 1 .. MaxBatches
          /\ nVal \in 0 .. MaxBatches
          /\ penLevels = MaxPen
          /\ llFloor = MaxLL
          /\ nonFinite = {NegInf, NaN}
          /\ dataset \in {"cifar10", "celeba", "imnet32", "imnet64"}
       \/ /\ max_epoch = EarlyStopLimit + ExtraEpochs
          /\ nTrain = 1
          /\ nVal = 1
          /\ penLevels = 0
          /\ llFloor = LongLL
          /\ nonFinite = {}
          /\ dataset = "celeba"
    /\ LoadNotRun
    /\ LogitIdle

Next ==
    \/ StartEpoch
    \/ ExitLoop
    \/ TrainBatch
    \/ TrainEnd
    \/ ValBatch
    \/ ValEnd
    \/ EarlyStopCheck

Spec == Init /\ [][Next]_vars

----------------------------------------------------------------------------
(* logit_transform *)

MainIdle ==
    /\ pc = "idle"
    /\ max_epoch = 0 /\ nTrain = 0 /\ nVal = 0
    /\ penLevels = 0 /\ llFloor = 0 /\ nonFinite = {}
    /\ MainLocals

\* the default of the constraint parameter
Constraint == <<9, 10>>

\* x = (x * 255. + noise) / 256.
Dequantize(x, nz) == RDiv(RAdd(RMul(x, RInt(255)), nz), RInt(256))

\* the restriction with the scaling by the constraint left out
Restrict_NoScale(x, c) ==
    RDiv(RAdd(RSub(RMul(x, RInt(2)), RInt(1)), RInt(1)), RInt(2))

\* x *= 2.; x -= 1.; x *= constraint; x += 1.; x /= 2.
Restrict(x, c) ==
    RDiv(RAdd(RMul(RSub(RMul(x, RInt(2)), RInt(1)), c), RInt(1)), RInt(2))

\* torch.log(x) - torch.log(1. - x), as the odds x / (1 - x)
Logit(x) == RDiv(x, RSub(RInt(1), x))

\* 1. / (torch.exp(-x) + 1.), where exp(-x) is the reciprocal of the odds
Sigmoid(o) == RDiv(RInt(1), RAdd(RInv(o), RInt(1)))

\* the reverse chain with the division by the constraint left out
Unrestrict_NoUnscale(x, c) ==
    RDiv(RAdd(RSub(RMul(x, RInt(2)), RInt(1)), RInt(1)), RInt(2))

\* x *= 2.; x -= 1.; x /= constraint; x += 1.; x /= 2.
Unrestrict(x, c) ==
    RDiv(RAdd(RDiv(RSub(RMul(x, RInt(2)), RInt(1)), c), RInt(1)), RInt(2))

PixelValues == {Norm(i, PixDen) : i \in 0 .. PixDen}
NoiseValues == {Norm(j, NoiseDen) : j \in 0 .. NoiseDen - 1}

\* logit_transform(x, constraint): draws the noise and returns the logit
Forward ==
    /\ lt = "input"
    /\ \E nz \in NoiseValues :
          /\ noise' = nz
          /\ pre_logit' = Restrict(Dequantize(x_in, nz), Constraint)
          /\ logit_x' = Logit(Restrict(Dequantize(x_in, nz), Constraint))
    /\ lt' = "forward"
    /\ UNCHANGED <<x_in, x_out>>
    /\ UNCHANGED <<mainVars, histVars, loadVars>>

\* logit_transform(x, constraint, reverse=True) on the forward result
Reverse ==
    /\ lt = "forward"
    /\ x_out' = Unrestrict(Sigmoid(logit_x), Constraint)
    /\ lt' = "reverse"
    /\ UNCHANGED <<x_in, noise, pre_logit, logit_x>>
    /\ UNCHANGED <<mainVars, histVars, loadVars>>

InitLogit ==
    /\ MainIdle
    /\ LoadIdle
    /\ lt = "input"
    /\ x_in \in PixelValues
    /\ noise = RInt(0) /\ pre_logit = RInt(0) /\ logit_x = RInt(0) /\ x_out = RInt(0)

NextLogit == Forward \/ Reverse

SpecLogit == InitLogit /\ [][NextLogit]_vars

----------------------------------------------------------------------------
(* load *)

Datasets == {"cifar10", "celeba", "imnet32", "imnet64"}

\* the lengths given to data.random_split
SplitLengths(name) ==
    CASE name = "cifar10" -> <<46000, 4000>>
      [] name = "imnet32" -> <<1250000, 31149>>
      [] name = "imnet64" -> <<1250000, 31149>>

\* data.random_split(train_set, lengths): the lengths of the splits, or << >>
\* for the ValueError raised when they do not sum to len(train_set)
RandomSplit(n, lengths) ==
    IF lengths[1] + lengths[2] = n THEN lengths ELSE << >>

\* the rows CelebA.__init__ keeps: those of the split's partition, and every
\* row for a split that is none of "train", "val" and "test"
CelebARows(rows, split) ==
    IF split = "train" THEN {i \in DOMAIN rows : rows[i] = 0}
    ELSE IF split = "val" THEN {i \in DOMAIN rows : rows[i] = 1}
    ELSE IF split = "test" THEN {i \in DOMAIN rows : rows[i] = 2}
    ELSE DOMAIN rows

\* CelebA with the validation split reading the test partition
CelebALen_ValIsTest(rows, split) ==
    Cardinality(CelebARows(rows, IF split = "val" THEN "test" ELSE split))

\* len(CelebA(csv_paths, split))
CelebALen(rows, split) == Cardinality(CelebARows(rows, split))

\* get_csv: the sorted file paths replace the image_id column, which pandas
\* refuses when their number is not the number of rows, unless the csv has no
\* row at all
GetCsvOk(files, rows) == Len(rows) = 0 \/ files = Len(rows)

\* the partition column of paths.csv: a csv without rows takes one row per
\* file, whose partition is missing (NoPartition, no split's number)
NoPartition == 0 - 1
PathsCsv(files, rows) ==
    IF Len(rows) = 0 THEN [i \in 1 .. files |-> NoPartition] ELSE rows

LoadSplit ==
    /\ loadState = "ready"
    /\ dataset \in {"cifar10", "imnet32", "imnet64"}
    /\ LET r == RandomSplit(setLen, SplitLengths(dataset))
       IN  IF r = << >>
           THEN loadState' = "error" /\ UNCHANGED <<train_len, val_len>>
           ELSE loadState' = "loaded" /\ train_len' = r[1] /\ val_len' = r[2]
    /\ UNCHANGED <<dataset, setLen, csvRows, nFiles>>
    /\ UNCHANGED <<mainVars, histVars, logitVars>>

LoadCelebA ==
    /\ loadState = "ready"
    /\ dataset = "celeba"
    /\ IF GetCsvOk(nFiles, csvRows)
       THEN /\ loadState' = "loaded"
            /\ train_len' = CelebALen(PathsCsv(nFiles, csvRows), "train")
            /\ val_len' = CelebALen(PathsCsv(nFiles, csvRows), "val")
       ELSE loadState' = "error" /\ UNCHANGED <<train_len, val_len>>
    /\ UNCHANGED <<dataset, setLen, csvRows, nFiles>>
    /\ UNCHANGED <<mainVars, histVars, logitVars>>

\* no branch assigns train_split: the return statement raises
LoadUnknown ==
    /\ loadState = "ready"
    /\ dataset \notin Datasets
    /\ loadState' = "error"
    /\ UNCHANGED <<dataset, setLen, csvRows, nFiles, train_len, val_len>>
    /\ UNCHANGED <<mainVars, histVars, logitVars>>

RowSeqs == UNION {[1 .. n -> 0 .. 2] : n \in 0 .. MaxRows}

InitLoad ==
    /\ MainIdle
    /\ LogitIdle
    /\ loadState = "ready" /\ train_len = 0 /\ val_len = 0
    /\ \/ /\ dataset \in {"cifar10", "imnet32", "imnet64"}
          /\ \E d \in (0 - Slack) .. Slack :
                setLen = SplitLengths(dataset)[1] + SplitLengths(dataset)[2] + d
          /\ csvRows = << >> /\ nFiles = 0
       \/ /\ dataset = "celeba"
          /\ csvRows \in RowSeqs
          /\ nFiles \in 0 .. MaxRows
          /\ setLen = 0
       \/ /\ dataset = "mnist"
          /\ setLen = 0 /\ csvRows = << >> /\ nFiles = 0

NextLoad == LoadSplit \/ LoadCelebA \/ LoadUnknown

SpecLoad == InitLoad /\ [][NextLoad]_vars

----------------------------------------------------------------------------
(* Properties of the training loop *)

Max0(n) == IF n < 0 THEN 0 ELSE n

EpochEnded == pc \in {"loop", "finished"} /\ epoch >= 1

\* the sum s of n batches divided by their number
MeanOf(s, n) == IF n = 0 THEN NaN ELSE FDivInt(s, n)

\* C1: main ends in one of two ways only, by the loop test with the epoch
\* counter at max_epoch (at 0 when max_epoch is negative) or by the early-stop
\* break, and it never runs more epochs than max_epoch.
C1_TwoTerminalStates ==
    /\ epoch <= Max0(max_epoch)
    /\ pc # "crashed"
    /\ pc = "finished" =>
          (epoch = Max0(max_epoch) \/ early_stop >= EarlyStopLimit)

\* C2: an epoch whose validation mean does not beat the best one so far
\* increments the early-stop counter; once 100 epochs in a row have not
\* improved, the counter is 100 and the loop has been left, with no further
\* epoch, whatever max_epoch is.
C2_EarlyStop ==
    /\ [][(pc = "check" /\ ~improved) =>
            /\ early_stop' = early_stop + 1
            /\ (early_stop' >= EarlyStopLimit => pc' = "finished")]_vars
    /\ []((EpochEnded /\ epoch - lastImproved >= EarlyStopLimit) =>
            (pc = "finished" /\ early_stop = EarlyStopLimit))
    /\ [](early_stop >= EarlyStopLimit => pc = "finished")
    /\ [][pc = "finished" => epoch' = epoch]_vars

C2_Witness ==
    pc = "finished" /\ early_stop = EarlyStopLimit /\ epoch < max_epoch

\* C3: when an epoch's validation mean is strictly greater than the best of
\* the earlier epochs, and in the first epoch whatever its mean is, the
\* checkpoint file holds the model's current parameters before the next
\* epoch begins.
C3_CheckpointOnImprove ==
    (EpochEnded /\ (improved \/ epoch = 1)) => checkpoint = <<params>>

C3_Witness ==
    EpochEnded /\ epoch = 2 /\ improved /\ checkpoint = <<params>> /\ nTrain = 2

\* C4: the grid of epoch e is written if and only if e <= 15, or e is 25, 35
\* or 45, or e is a multiple of 10; it is written by the end of that epoch's
\* validation phase and not before, whether or not validation improved.
C4_GridCadence ==
    /\ grids \subseteq 1 .. epoch
    /\ \A e \in 1 .. epoch :
          e \in grids <=>
             /\ e < epoch \/ pc \in {"check", "loop", "finished"}
             /\ e <= 15 \/ e \in {25, 35, 45} \/ e % 10 = 0

C4_Witness ==
    /\ pc = "check" /\ epoch = 50 /\ ~improved
    /\ {15, 25, 35, 45, 50} \subseteq grids
    /\ grids \cap {16, 24, 36, 46, 49} = {}

\* C8: both accumulators are zero when a training phase and when a validation
\* phase starts, and each reported mean is the sum over the batches of that
\* phase alone, divided by their number.
C8_PhaseMeans ==
    /\ (pc \in {"train", "val"} /\ fetched = 0) =>
          (running_loss = RInt(0) /\ running_log_ll = RInt(0))
    /\ pc = "val" =>
          /\ ended.n = nTrain
          /\ mean_loss = MeanOf(ended.loss, ended.n)
          /\ mean_log_ll = MeanOf(ended.ll, ended.n)
    /\ pc = "check" =>
          /\ ended.n = nVal
          /\ mean_loss = MeanOf(ended.loss, ended.n)
          /\ mean_log_ll = MeanOf(ended.ll, ended.n)

\* C9: at the end of every epoch, and when training has finished, the
\* checkpoint file holds the parameters of the epoch with the best validation
\* mean so far.
C9_CheckpointIsBest ==
    (EpochEnded /\ lastImproved >= 1) => checkpoint = <<bestParams>>

\* C10 as stated: at the end of every epoch optimal_log_ll is the maximum of
\* the validation means of the epochs run, and early_stop is the number of
\* epochs since the last strictly improving one, within 0 .. 100.
C10_Original ==
    /\ EpochEnded =>
          /\ optimal_log_ll \in valSeen
          /\ \A v \in valSeen : ~Gt(v, optimal_log_ll)
          /\ early_stop = epoch - lastImproved
    /\ early_stop \in 0 .. EarlyStopLimit

\* C10, amended: at the end of every epoch optimal_log_ll is the maximum of
\* the validation means of the epochs run that are not nan, and -inf when
\* there is none; early_stop is the number of epochs since the last one whose
\* mean was strictly greater than that maximum before it, lies in 0 .. 100,
\* and is below 100 whenever a new epoch can start.
C10_BestAndCounter ==
    /\ EpochEnded =>
          /\ optimal_log_ll = BestOf(valSeen)
          /\ \A v \in valSeen : ~Gt(v, optimal_log_ll)
          /\ early_stop = epoch - lastImproved
          /\ improved <=> early_stop = 0
    /\ early_stop \in 0 .. EarlyStopLimit
    /\ pc \in {"loop", "train", "val", "check"} => early_stop < EarlyStopLimit

C10_Witness ==
    /\ pc = "loop" /\ epoch = 2 /\ valSeen = {RInt(0 - 1), NaN}
    /\ optimal_log_ll = RInt(0 - 1) /\ early_stop = 1 /\ lastImproved = 1

----------------------------------------------------------------------------
(* Properties of logit_transform and of load *)

\* C5: with the same constraint in both directions, the forward transform
\* followed by the reverse one returns (255 * x + noise) / 256, which differs
\* from the pixel value x by at most 1/256.
C5_RoundTrip ==
    lt = "reverse" =>
        /\ RMul(RInt(256), x_out) = RAdd(RMul(RInt(255), x_in), noise)
        /\ RLe(RSub(x_out, x_in), <<1, 256>>)
        /\ RLe(RSub(x_in, x_out), <<1, 256>>)

C5_Witness ==
    lt = "reverse" /\ x_in = RInt(1) /\ noise = <<1, 2>> /\ x_out = <<511, 512>>

\* C6: for each named dataset the sizes of the train and validation splits that
\* load returns sum to the dataset's total: 50000 for cifar10, 1281149 for
\* imnet32 and imnet64, the number of the underlying dataset's samples in each
\* of these cases, and the number of partition-0 and partition-1 rows for celeba.
C6_SplitSizes ==
    loadState = "loaded" =>
        /\ dataset = "cifar10" =>
              (train_len + val_len = 50000 /\ setLen = 50000)
        /\ dataset \in {"imnet32", "imnet64"} =>
              (train_len + val_len = 1281149 /\ setLen = 1281149)
        /\ dataset = "celeba" =>
              train_len + val_len =
                 Cardinality({i \in DOMAIN csvRows : csvRows[i] \in {0, 1}})

C6_Witness ==
    /\ loadState = "loaded" /\ dataset = "celeba"
    /\ csvRows = <<0, 1, 2, 0>> /\ train_len = 2 /\ val_len = 1

\* C7: in the forward direction with the default constraint the value the
\* logit is applied to lies in [0.05, 0.95], so it is neither 0 nor 1 and the
\* logit is finite.
C7_PreLogitRange ==
    lt \in {"forward", "reverse"} =>
        /\ RLe(<<1, 20>>, pre_logit)
        /\ RLe(pre_logit, <<19, 20>>)
        /\ pre_logit # RInt(0) /\ pre_logit # RInt(1)
        /\ logit_x[1] > 0 /\ logit_x[2] > 0

C7_Witness ==
    lt = "forward" /\ x_in = RInt(0) /\ noise = RInt(0) /\ pre_logit = <<1, 20>>

====
